---- MODULE Spec2Model ----
(***************************************************************************)
(* Line follower for the Zumo 32U4 (kdh_line.ino).                         *)
(*                                                                         *)
(* The sketch's float quantities (desired_lin_speed, rot_gain, rot_speed,  *)
(* lin_speed, left_speed, right_speed) are held as fixed-point integers    *)
(* counting units of 1/Scale; sums and differences are exact, a product    *)
(* with a decimal literal (0.9, 1.1) is rounded to the nearest unit, as    *)
(* the float product is rounded to the nearest representable value.  The   *)
(* int of the AVR target is 16 bits wide.                                  *)
(***************************************************************************)
EXTENDS Integers, FiniteSets, Sequences, TLC

(* ---------------------------------------------------------------- bounds *)
\* Calibration iterations before the operator confirms.
MaxCalib == 2
\* Button presses detected in the main loop.
MaxToggles == 3
MaxDec == 2
MaxInc == 16
\* Line positions sampled around the centre, in steps of 100, besides the
\* two ends of the range.
MaxOff == 3
\* Velocity commands tried on the allocator: multiples of 12.5 up to
\* MaxAllocK * 12.5 in magnitude.
MaxAllocK == 88
\* Gains tried on the steering law: multiples of 0.05.
MaxGainK == 10

(* ------------------------------------------------------- number handling *)
\* Units per 1.0 of a float quantity.
Scale == 10 ^ 4

\* A whole number as a float quantity.
Fx(n) == n * Scale

\* The speed limit of one track, |speed| <= 400.
MaxSpeed == 400

\* Line position of a centred line.
Center == 2000

\* float desired_lin_speed = 100.0
InitLinSpeed == 100

\* 16-bit two's complement int of the target.
Wrap16(x) == ((x + 32768) % 65536) - 32768

\* Conversion of a float argument to the int16_t parameter of
\* motors.setSpeeds: truncation toward zero.
ToInt16(x) == IF x >= 0 THEN x \div Scale ELSE -((-x) \div Scale)

\* x * (num/den) for a float x >= 0 and a decimal literal num/den, rounded
\* to the nearest unit.
MulLit(x, num, den) == (2 * x * num + den) \div (2 * den)

VARIABLES
  pc,                 \* where the sketch is: setup, calibration or loop
  pause,              \* bool pause
  desired_lin_speed,  \* float desired_lin_speed
  rot_gain,           \* float rot_gain
  line_position,      \* int line_position of the last cycle
  rot_speed,          \* float rot_speed of the last cycle
  cmd_lin, cmd_rot,   \* arguments of the last setLinRotSpeeds call
  left_speed, right_speed,   \* its float results
  motor_left, motor_right,   \* int16_t arguments of the last motors.setSpeeds
  branch,             \* which boundary branch the last call took (0: none)
  inner,              \* whether that branch's inner check clamped
  actuated,           \* whether motors.setSpeeds was ever called
  ncalib,             \* line_sensors.calibrate() calls so far
  a_setup,            \* A presses consumed by setup()
  toggles, decs, incs \* A, B, C presses detected by loop()

vars == <<pc, pause, desired_lin_speed, rot_gain, line_position, rot_speed,
          cmd_lin, cmd_rot, left_speed, right_speed, motor_left, motor_right,
          branch, inner, actuated, ncalib, a_setup, toggles, decs, incs>>

(* ------------------------------------------------------------- allocator *)
\* Mutant: the first branch shifts the right track by the amount of the
\* third branch.
setLinRotSpeedsWrongShift(lin_speed, rot_speed_) ==
  LET l == lin_speed - rot_speed_
      r == lin_speed + rot_speed_
      M == Fx(MaxSpeed)
  IN  IF l > M THEN
        LET r1 == r - (l + M) IN
        [left |-> M, right |-> IF r1 < -M THEN -M ELSE r1,
         branch |-> 1, inner |-> r1 < -M]
      ELSE IF r > M THEN
        LET l1 == l - (r - M) IN
        [left |-> IF l1 < -M THEN -M ELSE l1, right |-> M,
         branch |-> 2, inner |-> l1 < -M]
      ELSE IF l < -M THEN
        LET r1 == r - (l + M) IN
        [left |-> -M, right |-> IF r1 > M THEN M ELSE r1,
         branch |-> 3, inner |-> r1 > M]
      ELSE IF r < -M THEN
        LET l1 == l - (r + M) IN
        [left |-> IF l1 > M THEN M ELSE l1, right |-> -M,
         branch |-> 4, inner |-> l1 > M]
      ELSE [left |-> l, right |-> r, branch |-> 0, inner |-> FALSE]

\* Mutant: right > 400 is tested before left > 400.
setLinRotSpeedsSwapped(lin_speed, rot_speed_) ==
  LET l == lin_speed - rot_speed_
      r == lin_speed + rot_speed_
      M == Fx(MaxSpeed)
  IN  IF r > M THEN
        LET l1 == l - (r - M) IN
        [left |-> IF l1 < -M THEN -M ELSE l1, right |-> M,
         branch |-> 2, inner |-> l1 < -M]
      ELSE IF l > M THEN
        LET r1 == r - (l - M) IN
        [left |-> M, right |-> IF r1 < -M THEN -M ELSE r1,
         branch |-> 1, inner |-> r1 < -M]
      ELSE IF l < -M THEN
        LET r1 == r - (l + M) IN
        [left |-> -M, right |-> IF r1 > M THEN M ELSE r1,
         branch |-> 3, inner |-> r1 > M]
      ELSE IF r < -M THEN
        LET l1 == l - (r + M) IN
        [left |-> IF l1 > M THEN M ELSE l1, right |-> -M,
         branch |-> 4, inner |-> l1 > M]
      ELSE [left |-> l, right |-> r, branch |-> 0, inner |-> FALSE]

\* setLinRotSpeeds up to the motors.setSpeeds call: the float left_speed and
\* right_speed it ends with, the branch taken and whether that branch's
\* inner check clamped.
setLinRotSpeeds(lin_speed, rot_speed_) ==
  LET l == lin_speed - rot_speed_
      r == lin_speed + rot_speed_
      M == Fx(MaxSpeed)
  IN  IF l > M THEN
        LET r1 == r - (l - M) IN
        [left |-> M, right |-> IF r1 < -M THEN -M ELSE r1,
         branch |-> 1, inner |-> r1 < -M]
      ELSE IF r > M THEN
        LET l1 == l - (r - M) IN
        [left |-> IF l1 < -M THEN -M ELSE l1, right |-> M,
         branch |-> 2, inner |-> l1 < -M]
      ELSE IF l < -M THEN
        LET r1 == r - (l + M) IN
        [left |-> -M, right |-> IF r1 > M THEN M ELSE r1,
         branch |-> 3, inner |-> r1 > M]
      ELSE IF r < -M THEN
        LET l1 == l - (r + M) IN
        [left |-> IF l1 > M THEN M ELSE l1, right |-> -M,
         branch |-> 4, inner |-> l1 > M]
      ELSE [left |-> l, right |-> r, branch |-> 0, inner |-> FALSE]

\* The call setLinRotSpeeds(lin, rot) as a state change, motors.setSpeeds
\* included.
Actuate(lin, rot) ==
  LET w == setLinRotSpeeds(lin, rot) IN
  /\ cmd_lin' = lin
  /\ cmd_rot' = rot
  /\ left_speed' = w.left
  /\ right_speed' = w.right
  /\ motor_left' = ToInt16(w.left)
  /\ motor_right' = ToInt16(w.right)
  /\ branch' = w.branch
  /\ inner' = w.inner
  /\ actuated' = TRUE

(* ------------------------------------------------------------ controller *)
\* Mutant: the negation is missing.
SteeringLawNoNeg(p, g) == g * Wrap16(p - Center)

\* float rot_speed = rot_gain * -(line_position - 2000): the subtraction and
\* the negation are int operations, the product a float one.
SteeringLaw(p, g) == g * Wrap16(-Wrap16(p - Center))

\* Mutant: the pause test is missing.
VelocityCommandNoPause(paused, lin, rot) == [lin |-> lin, rot |-> rot]

\* The arguments loop() passes to setLinRotSpeeds.
VelocityCommand(paused, lin, rot) ==
  IF paused THEN [lin |-> 0, rot |-> 0] ELSE [lin |-> lin, rot |-> rot]

(* --------------------------------------------------------------- buttons *)
\* Mutant: button A only pauses.
TogglePauseOnly(pressed, paused) == IF pressed THEN TRUE ELSE paused

\* if (button_a.getSingleDebouncedPress()) pause = !pause;
TogglePause(pressed, paused) == IF pressed THEN ~paused ELSE paused

\* Mutant: the speed is lowered only while running.
DecreaseSpeedRunning(pressed, speed) ==
  IF pressed /\ ~pause THEN MulLit(speed, 9, 10) ELSE speed

\* if (button_b.getSingleDebouncedPress()) desired_lin_speed *= 0.9;
DecreaseSpeed(pressed, speed) ==
  IF pressed THEN MulLit(speed, 9, 10) ELSE speed

\* if (button_c.getSingleDebouncedPress()) desired_lin_speed *= 1.1;
IncreaseSpeed(pressed, speed) ==
  IF pressed THEN MulLit(speed, 11, 10) ELSE speed

(* ----------------------------------------------------------------- setup *)
\* Line positions readLine may return.
LinePositions ==
  {0, 2 * Center} \cup {Center + k * 100 : k \in -MaxOff..MaxOff}

\* The globals after construction.
Globals ==
  /\ pause = TRUE
  /\ desired_lin_speed = Fx(InitLinSpeed)
  /\ rot_gain = Scale \div 10
  /\ line_position = 0
  /\ rot_speed = 0
  /\ cmd_lin = 0 /\ cmd_rot = 0
  /\ left_speed = 0 /\ right_speed = 0
  /\ motor_left = 0 /\ motor_right = 0
  /\ branch = 0 /\ inner = FALSE
  /\ actuated = FALSE
  /\ ncalib = 0
  /\ a_setup = 0
  /\ toggles = 0 /\ decs = 0 /\ incs = 0

Init == pc = "wait_a" /\ Globals

\* button_a.waitForButton() returns.
WaitForButton ==
  /\ pc = "wait_a"
  /\ pc' = "calibrate"
  /\ a_setup' = a_setup + 1
  /\ UNCHANGED <<pause, desired_lin_speed, rot_gain, line_position, rot_speed,
                 cmd_lin, cmd_rot, left_speed, right_speed, motor_left,
                 motor_right, branch, inner, actuated, ncalib, toggles, decs,
                 incs>>

\* One iteration of the calibration while loop: no press, calibrate().
CalibrateStep ==
  /\ pc = "calibrate"
  /\ ncalib < MaxCalib
  /\ ncalib' = ncalib + 1
  /\ UNCHANGED <<pc, pause, desired_lin_speed, rot_gain, line_position,
                 rot_speed, cmd_lin, cmd_rot, left_speed, right_speed,
                 motor_left, motor_right, branch, inner, actuated, a_setup,
                 toggles, decs, incs>>

\* Mutant: the while condition is inverted, the loop ends without a press.
CalibrateDoneInverted ==
  /\ pc = "calibrate"
  /\ pc' = "loop"
  /\ UNCHANGED <<pause, desired_lin_speed, rot_gain, line_position, rot_speed,
                 cmd_lin, cmd_rot, left_speed, right_speed, motor_left,
                 motor_right, branch, inner, actuated, ncalib, a_setup,
                 toggles, decs, incs>>

\* The calibration while loop ends: getSingleDebouncedPress() is true and
\* setup() returns.
CalibrateDone ==
  /\ pc = "calibrate"
  /\ pc' = "loop"
  /\ a_setup' = a_setup + 1
  /\ UNCHANGED <<pause, desired_lin_speed, rot_gain, line_position, rot_speed,
                 cmd_lin, cmd_rot, left_speed, right_speed, motor_left,
                 motor_right, branch, inner, actuated, ncalib, toggles, decs,
                 incs>>

(* ------------------------------------------------------------------ loop *)
\* One pass of loop() reading line position p and detecting presses a, b, c;
\* actPause and actSpeed are the pause flag and the speed the actuation uses.
CycleEffect(p, a, b, c, actPause, actSpeed) ==
  LET r == SteeringLaw(p, rot_gain)
      v == VelocityCommand(actPause, actSpeed, r)
  IN  /\ line_position' = p
      /\ rot_speed' = r
      /\ Actuate(v.lin, v.rot)
      /\ pause' = TogglePause(a, pause)
      /\ desired_lin_speed' =
           IncreaseSpeed(c, DecreaseSpeed(b, desired_lin_speed))
      /\ toggles' = IF a THEN toggles + 1 ELSE toggles
      /\ decs' = IF b THEN decs + 1 ELSE decs
      /\ incs' = IF c THEN incs + 1 ELSE incs
      /\ UNCHANGED <<pc, rot_gain, ncalib, a_setup>>

\* Mutant: the buttons are polled before the motors are commanded.
LoopCyclePollFirst ==
  /\ pc = "loop"
  /\ \E p \in LinePositions, a \in BOOLEAN, b \in BOOLEAN, c \in BOOLEAN :
       /\ a => toggles < MaxToggles
       /\ b => decs < MaxDec
       /\ c => incs < MaxInc
       /\ CycleEffect(p, a, b, c, TogglePause(a, pause),
                      IncreaseSpeed(c, DecreaseSpeed(b, desired_lin_speed)))

\* loop(): read, steer, actuate, then poll the three buttons.
LoopCycle ==
  /\ pc = "loop"
  /\ \E p \in LinePositions, a \in BOOLEAN, b \in BOOLEAN, c \in BOOLEAN :
       /\ a => toggles < MaxToggles
       /\ b => decs < MaxDec
       /\ c => incs < MaxInc
       /\ CycleEffect(p, a, b, c, pause, desired_lin_speed)

Next == WaitForButton \/ CalibrateStep \/ CalibrateDone \/ LoopCycle

Spec == Init /\ [][Next]_vars

(* ------------------------------------------- the allocator on its own *)
\* Velocity command components tried on the allocator.
AllocInputs == {k * ((25 * Scale) \div 2) : k \in -MaxAllocK..MaxAllocK}

InitAlloc ==
  /\ pc = "alloc"
  /\ cmd_lin \in AllocInputs
  /\ cmd_rot \in AllocInputs
  /\ pause = TRUE
  /\ desired_lin_speed = Fx(InitLinSpeed)
  /\ rot_gain = Scale \div 10
  /\ line_position = 0
  /\ rot_speed = 0
  /\ left_speed = 0 /\ right_speed = 0
  /\ motor_left = 0 /\ motor_right = 0
  /\ branch = 0 /\ inner = FALSE
  /\ actuated = FALSE
  /\ ncalib = 0
  /\ a_setup = 0
  /\ toggles = 0 /\ decs = 0 /\ incs = 0

\* One call setLinRotSpeeds(cmd_lin, cmd_rot).
AllocCall ==
  /\ pc = "alloc"
  /\ pc' = "alloc_done"
  /\ Actuate(cmd_lin, cmd_rot)
  /\ UNCHANGED <<pause, desired_lin_speed, rot_gain, line_position, rot_speed,
                 ncalib, a_setup, toggles, decs, incs>>

NextAlloc == AllocCall

SpecAlloc == InitAlloc /\ [][NextAlloc]_vars

(* ---------------------------------------- the steering law on its own *)
\* Gains tried on the steering law.
Gains == {k * (Scale \div 20) : k \in -MaxGainK..MaxGainK}

InitSteer ==
  /\ pc = "steer"
  /\ line_position \in 0..(2 * Center)
  /\ rot_gain \in Gains
  /\ pause \in BOOLEAN
  /\ desired_lin_speed = Fx(InitLinSpeed)
  /\ rot_speed = 0
  /\ cmd_lin = 0 /\ cmd_rot = 0
  /\ left_speed = 0 /\ right_speed = 0
  /\ motor_left = 0 /\ motor_right = 0
  /\ branch = 0 /\ inner = FALSE
  /\ actuated = FALSE
  /\ ncalib = 0
  /\ a_setup = 0
  /\ toggles = 0 /\ decs = 0 /\ incs = 0

\* The assignment to rot_speed in loop().
SteerCall ==
  /\ pc = "steer"
  /\ pc' = "steer_done"
  /\ rot_speed' = SteeringLaw(line_position, rot_gain)
  /\ UNCHANGED <<pause, desired_lin_speed, rot_gain, line_position, cmd_lin,
                 cmd_rot, left_speed, right_speed, motor_left, motor_right,
                 branch, inner, actuated, ncalib, a_setup, toggles, decs,
                 incs>>

NextSteer == SteerCall

SpecSteer == InitSteer /\ [][NextSteer]_vars

(* ================================================================ claims *)
InRange(x) == -MaxSpeed <= x /\ x <= MaxSpeed

\* C1: every wheel speed pair setLinRotSpeeds hands to motors.setSpeeds has
\* both components within [-400, 400], for every velocity command.
C1_AllocatorOutputInRange ==
  pc = "alloc_done" => InRange(motor_left) /\ InRange(motor_right)

\* C2: in every reachable state of the running system, the wheel speed pair
\* last sent to the motors has both components within [-400, 400].
C2_SystemOutputInRange ==
  actuated => InRange(motor_left) /\ InRange(motor_right)

\* C3: in every control cycle that starts paused, the velocity command
\* passed to the allocator is (0, 0) and the wheel speed pair actuated is
\* (0, 0), whatever the line position and the desired linear speed.
C3_PauseForcesZero ==
  [][(pc = "loop" /\ pc' = "loop" /\ pause) =>
       /\ actuated'
       /\ cmd_lin' = 0 /\ cmd_rot' = 0
       /\ left_speed' = 0 /\ right_speed' = 0
       /\ motor_left' = 0 /\ motor_right' = 0]_vars

\* A paused cycle with the line at the left end and a raised speed, after
\* the robot has run and been paused again.
C3_Witness ==
  /\ pc = "loop" /\ actuated /\ pause /\ toggles = 2 /\ incs > 0
  /\ line_position = 0 /\ rot_speed # 0
  /\ cmd_lin = 0 /\ cmd_rot = 0 /\ motor_left = 0 /\ motor_right = 0

\* C4: whenever one of the four boundary branches fires, right - left of
\* the result equals 2*rot, unless the branch's inner check clamped the
\* opposite side, and then the two results sit at opposite limits.
C4_RotationPreserved ==
  (pc = "alloc_done" /\ branch # 0) =>
    IF inner
      THEN {left_speed, right_speed} = {Fx(MaxSpeed), -Fx(MaxSpeed)}
      ELSE right_speed - left_speed = 2 * cmd_rot

\* The left > 400 branch fired on a turning command without inner clamp.
C4_Witness ==
  /\ pc = "alloc_done" /\ branch = 1 /\ ~inner /\ cmd_rot # 0
  /\ left_speed = Fx(MaxSpeed)

\* The first boundary condition that holds on the nominal pair, in the order
\* left > 400, right > 400, left < -400, right < -400; 0 when none holds.
FirstMatch(l, r) ==
  CASE l > Fx(MaxSpeed) -> 1
    [] l <= Fx(MaxSpeed) /\ r > Fx(MaxSpeed) -> 2
    [] l <= Fx(MaxSpeed) /\ r <= Fx(MaxSpeed) /\ l < -Fx(MaxSpeed) -> 3
    [] l <= Fx(MaxSpeed) /\ r <= Fx(MaxSpeed) /\ l >= -Fx(MaxSpeed)
         /\ r < -Fx(MaxSpeed) -> 4
    [] OTHER -> 0

Max2(x, y) == IF x >= y THEN x ELSE y
Min2(x, y) == IF x <= y THEN x ELSE y

\* C5: at most one boundary adjustment is applied, the first whose condition
\* holds on the nominal values in the order left > 400, right > 400,
\* left < -400, right < -400; when none holds the nominal pair is actuated
\* unchanged; (0, 500) yields (-400, 400) through right > 400 and (500, 0)
\* yields (400, 400) through left > 400.
C5_CaseSelection ==
  pc = "alloc_done" =>
    LET l == cmd_lin - cmd_rot
        r == cmd_lin + cmd_rot
        M == Fx(MaxSpeed)
    IN  /\ branch = FirstMatch(l, r)
        /\ branch = 0 => left_speed = l /\ right_speed = r
        /\ branch = 1 =>
             left_speed = M /\ right_speed = Max2(-M, r - (l - M))
        /\ branch = 2 =>
             right_speed = M /\ left_speed = Max2(-M, l - (r - M))
        /\ branch = 3 =>
             left_speed = -M /\ right_speed = Min2(M, r - (l + M))
        /\ branch = 4 =>
             right_speed = -M /\ left_speed = Min2(M, l - (r + M))
        /\ (cmd_lin = 0 /\ cmd_rot = Fx(500)) =>
             branch = 2 /\ motor_left = -MaxSpeed /\ motor_right = MaxSpeed
        /\ (cmd_lin = Fx(500) /\ cmd_rot = 0) =>
             branch = 1 /\ motor_left = MaxSpeed /\ motor_right = MaxSpeed

\* Both nominal values exceed 400 and the left > 400 branch was taken.
C5_Witness ==
  /\ pc = "alloc_done"
  /\ cmd_lin - cmd_rot > Fx(MaxSpeed) /\ cmd_lin + cmd_rot > Fx(MaxSpeed)
  /\ cmd_rot # 0
  /\ branch = 1

\* C6: the rotational speed is r = g * -(p - 2000) for every line position
\* p in [0, 4000] and gain g, the int subtraction and negation not
\* overflowing 16 bits; p = 2000 gives 0, p > 2000 gives r < 0 and
\* p < 2000 gives r > 0 for g > 0; with g = 0.1, p = 0 gives 200,
\* p = 4000 gives -200 and |r| <= 200.
C6_SteeringLaw ==
  pc = "steer_done" =>
    LET p == line_position
        g == rot_gain
        r == rot_speed
    IN  /\ (p - Center) \in -32768..32767
        /\ -(p - Center) \in -32768..32767
        /\ r = g * (-(p - Center))
        /\ p = Center => r = 0
        /\ (g > 0 /\ p > Center) => r < 0
        /\ (g > 0 /\ p < Center) => r > 0
        /\ g = Scale \div 10 =>
             /\ p = 0 => r = Fx(200)
             /\ p = 2 * Center => r = -Fx(200)
             /\ -Fx(200) <= r /\ r <= Fx(200)

\* Gain 0.1 and the line at the left end: r = 200.
C6_Witness ==
  /\ pc = "steer_done" /\ line_position = 0 /\ rot_gain = Scale \div 10
  /\ rot_speed = Fx(200)

\* A step of the running sketch that is a pass of loop().
Cycle == pc = "loop" /\ pc' = "loop"

\* C7: the robot starts paused and stays paused with every actuation (0, 0)
\* until the first toggle-pause press in the main loop (the A presses of
\* setup do not unpause); each toggle-pause press flips pause once, so a
\* cycle runs exactly when an odd number of presses were detected before it.
C7_StartsPausedAndToggles ==
  /\ [](pc # "loop" => pause /\ ~actuated)
  /\ []((pc = "loop" /\ toggles = 0) =>
          /\ pause
          /\ cmd_lin = 0 /\ cmd_rot = 0
          /\ motor_left = 0 /\ motor_right = 0)
  /\ [](pause <=> toggles % 2 = 0)
  /\ [][Cycle =>
          /\ toggles' # toggles => pause' = ~pause
          /\ toggles' = toggles => pause' = pause
          /\ (cmd_lin' # 0) <=> (toggles % 2 = 1)]_vars

\* The robot runs a cycle after three toggle-pause presses.
C7_Witness ==
  pc = "loop" /\ toggles = 3 /\ ~pause /\ cmd_lin # 0

Abs(x) == IF x >= 0 THEN x ELSE -x

\* C8: pause and the desired linear speed change only on button presses: a
\* toggle-pause press changes only pause; a decrease-speed press multiplies
\* the speed by 0.9, an increase-speed press by 1.1, both by 0.99, paused
\* or not (to within one rounding of each product); the speed is
\* 100 * 0.9^a * 1.1^b (exactly, as long as that value is representable)
\* and stays strictly positive.
C8_OperatorStateFrame ==
  /\ [][/\ toggles' = toggles => pause' = pause
        /\ (decs' = decs /\ incs' = incs) =>
             desired_lin_speed' = desired_lin_speed
        /\ (decs' # decs /\ incs' = incs) =>
             Abs(10 * desired_lin_speed' - 9 * desired_lin_speed) <= 5
        /\ (decs' = decs /\ incs' # incs) =>
             Abs(10 * desired_lin_speed' - 11 * desired_lin_speed) <= 5
        /\ (decs' # decs /\ incs' # incs) =>
             Abs(100 * desired_lin_speed' - 99 * desired_lin_speed) <= 105
        /\ (toggles' # toggles \/ decs' # decs \/ incs' # incs) => Cycle
       ]_vars
  /\ [](desired_lin_speed > 0)
  /\ []LET n == decs + incs IN
       (n <= 6 /\ Fx(InitLinSpeed) % (10 ^ n) = 0) =>
         desired_lin_speed =
           (Fx(InitLinSpeed) \div (10 ^ n)) * (9 ^ decs) * (11 ^ incs)

\* Both speed buttons were pressed while the robot was still paused.
C8_Witness ==
  /\ pc = "loop" /\ pause /\ toggles = 0 /\ decs = 1 /\ incs = 1
  /\ desired_lin_speed = Fx(99)

\* C9: setup waits for a first A press, then calibrates until a second A
\* press; no main-loop cycle happens before that press and no calibration
\* step after the main loop has begun.
C9_CalibrationBeforeLoop ==
  /\ [](pc = "wait_a" => a_setup = 0 /\ ncalib = 0 /\ ~actuated)
  /\ [](pc = "calibrate" => a_setup = 1 /\ ~actuated)
  /\ [](pc = "loop" => a_setup = 2)
  /\ [][/\ pc = "loop" => (pc' = "loop" /\ ncalib' = ncalib)
        /\ actuated => (actuated' /\ ncalib' = ncalib)
        /\ ncalib' # ncalib => (pc = "calibrate" /\ pc' = "calibrate")
        /\ actuated' # actuated => Cycle]_vars

\* The main loop has actuated after a calibration of two steps.
C9_Witness ==
  pc = "loop" /\ actuated /\ ncalib >= 2 /\ a_setup = 2

\* C10: each cycle actuates once, from pause and the desired linear speed
\* as they were when the cycle began; the buttons are polled afterwards,
\* so a press detected in a cycle first takes effect in the next one.
C10_ActuateBeforePoll ==
  [][Cycle =>
       LET r == rot_gain * (Center - line_position')
           w == setLinRotSpeeds(desired_lin_speed, r)
       IN  /\ actuated'
           /\ pause =>
                /\ cmd_lin' = 0 /\ cmd_rot' = 0
                /\ motor_left' = 0 /\ motor_right' = 0
           /\ ~pause =>
                /\ cmd_lin' = desired_lin_speed /\ cmd_rot' = r
                /\ left_speed' = w.left /\ right_speed' = w.right
                /\ motor_left' = ToInt16(w.left)
                /\ motor_right' = ToInt16(w.right)]_vars

\* A toggle-pause press was detected in a cycle that began paused: that
\* cycle still actuated (0, 0).
C10_Witness ==
  /\ pc = "loop" /\ actuated /\ toggles = 1 /\ ~pause
  /\ cmd_lin = 0 /\ motor_left = 0 /\ motor_right = 0

====
